---- MODULE Spec2Model ----
(***************************************************************************)
(* html-knitter: the document tree transformation of main.go               *)
(* (processNode, embedCSS, removeInlineJS, isPreloadJS, isStylesheet), the *)
(* @font-face rewriting loop inside embedCSS, and embedImage of the image  *)
(* variant.                                                                *)
(*                                                                         *)
(* Go strings are sequences of symbols.  Every symbol stands for a fixed   *)
(* run of characters ("_next", ".woff", "url", "(", ...), chosen so that   *)
(* no symbol's text occurs inside the text of a run of other symbols:      *)
(* equality, prefix and substring tests on symbol sequences are then the   *)
(* tests of the strings they stand for.  Attribute keys and tag names are  *)
(* never cut or searched, only compared, and are plain strings.            *)
(***************************************************************************)
EXTENDS Integers, Sequences, FiniteSets, TLC

VARIABLES
    removeJS,       \* config.removeJS
    baseDir,        \* config.baseDir
    processedURLs,  \* config.processedURLs (the set of keys mapped to true)
    fs,             \* the file system: path -> content of the readable files
    heap,           \* the html.Node objects: node id -> its fields
    stack,          \* the call stack of processNode: frames [n, c, next, pc]
    heap0,          \* the tree as html.Parse returned it (never changed)
    visited,        \* the nodes processNode was called on, in call order
    detached,       \* the nodes RemoveChild took out of the tree
    lateUse,        \* <<node, field>>: a field of node used after its detach
    styleOf,        \* stylesheet link -> the style node embedCSS made for it
    cssString,      \* embedCSS: the CSS text being rewritten
    cssInput,       \* embedCSS: the CSS text as read from the file
    fontFaces,      \* embedCSS: the @font-face blocks still to process
    urls,           \* embedCSS: the url(...) paths of the current block
    imgs,           \* the Attr lists of the img nodes embedImage is called on
    reads,          \* how many times embedImage read each path
    calls           \* the calls of embedImage: node, src, what the call did

vars == <<removeJS, baseDir, processedURLs, fs, heap, stack, heap0, visited,
          detached, lateUse, styleOf, cssString, cssInput, fontFaces, urls,
          imgs, reads, calls>>

\* ----------------------------------------------------------------- bounds

\* The most nodes below the document node in a parsed tree.
MaxNodes == 3

\* The most url(...) references in a stylesheet.
MaxRefs == 2

\* The most img nodes of a run.
MaxImgs == 2

\* The most calls of embedImage in a run.
MaxCalls == 3

\* ---------------------------------------------------------------- strings

\* Go's nil pointer; node ids start at 1.
Nil == 0

Range(s) == {s[i] : i \in 1..Len(s)}

Min(S) == CHOOSE x \in S : \A y \in S : x <= y

Max(S) == CHOOSE x \in S : \A y \in S : x >= y

\* strings.HasPrefix(s, p)
HasPrefix(s, p) == Len(s) >= Len(p) /\ SubSeq(s, 1, Len(p)) = p

\* whether old occurs in s at position i
OccursAt(s, old, i) == i + Len(old) - 1 <= Len(s) /\ SubSeq(s, i, i + Len(old) - 1) = old

\* strings.Replace(s, old, new, -1) for a non-empty old: the non-overlapping
\* occurrences of old, found from the left, each replaced by new.
RECURSIVE ReplaceFrom(_, _, _, _)
ReplaceFrom(s, old, new, i) ==
    IF i > Len(s) THEN <<>>
    ELSE IF OccursAt(s, old, i) THEN new \o ReplaceFrom(s, old, new, i + Len(old))
    ELSE <<s[i]>> \o ReplaceFrom(s, old, new, i + 1)

ReplaceAll(s, old, new) == ReplaceFrom(s, old, new, 1)

\* filepath.Join(dir, p) for the directories filepath.Dir returns here (".",
\* "/", a relative directory name) and a p without "." or ".." elements:
\* Clean(dir + "/" + p).
Join(dir, p) ==
    LET rel == IF Len(p) > 0 /\ p[1] = "/" THEN Tail(p) ELSE p
    IN  IF dir = <<".">> THEN rel
        ELSE IF dir = <<"/">> THEN <<"/">> \o rel
        ELSE dir \o <<"/">> \o rel

\* os.ReadFile(path): err == nil iff the path is a readable file
CanRead(f, path) == path \in DOMAIN f

\* ------------------------------------------------------- CSS font rewriting

\* The characters the class [^'"()] of fontUrlRegex excludes.
QuoteOrParen == {"'", "\"", "(", ")"}

Quotes == {"'", "\""}

\* The symbols that begin with a dot (the others hold none).
DotSymbols == {".woff", ".ttf", ".TTF", ".eot", ".otf", ".bak", ".css", ".png", ".gif"}

\* fontMimeTypes: extension -> MIME type
fontMimeTypes ==
    (<<".woff", "2">> :> "font/woff2") @@ (<<".woff">> :> "font/woff") @@
    (<<".ttf">> :> "font/ttf") @@ (<<".eot">> :> "application/vnd.ms-fontobject") @@
    (<<".otf">> :> "font/otf")

\* filepath.Ext(p): from the last dot of the last path element to the end
Ext(p) ==
    LET dots == {i \in 1..Len(p) : p[i] \in DotSymbols /\ \A j \in i..Len(p) : p[j] # "/"}
    IN  IF dots = {} THEN <<>> ELSE SubSeq(p, Max(dots), Len(p))

\* strings.ToLower: ".TTF" is the one symbol with upper-case letters
ToLower(s) == [i \in 1..Len(s) |-> IF s[i] = ".TTF" THEN ".ttf" ELSE s[i]]

\* the alphabet of base64.StdEncoding
B64Chars ==
    <<"A","B","C","D","E","F","G","H","I","J","K","L","M","N","O","P",
      "Q","R","S","T","U","V","W","X","Y","Z","a","b","c","d","e","f",
      "g","h","i","j","k","l","m","n","o","p","q","r","s","t","u","v",
      "w","x","y","z","0","1","2","3","4","5","6","7","8","9","+","/">>

B64(v) == B64Chars[v + 1]

\* base64.StdEncoding.EncodeToString(b), b a sequence of bytes
RECURSIVE EncodeToString(_)
EncodeToString(b) ==
    IF Len(b) = 0 THEN <<>>
    ELSE IF Len(b) = 1 THEN
        <<B64(b[1] \div 4), B64((b[1] % 4) * 16), "=", "=">>
    ELSE IF Len(b) = 2 THEN
        <<B64(b[1] \div 4), B64((b[1] % 4) * 16 + b[2] \div 16),
          B64((b[2] % 16) * 4), "=">>
    ELSE
        <<B64(b[1] \div 4), B64((b[1] % 4) * 16 + b[2] \div 16),
          B64((b[2] % 16) * 4 + b[3] \div 64), B64(b[3] % 64)>>
        \o EncodeToString(SubSeq(b, 4, Len(b)))

\* fmt.Sprintf("data:%s;base64,%s", mimeType, b64Content)
DataURL(mimeType, content) == <<"data:", mimeType, ";base64,">> \o EncodeToString(content)

\* fontFaceRegex = `@font-face\s*{[^}]*}`: the last position of the match that
\* starts at i, or 0 when none starts there
FontFaceEnd(s, i) ==
    IF i <= Len(s) /\ s[i] = "@font-face" THEN
        LET nonsp == {k \in (i + 1)..Len(s) : s[k] # " "}
            j == IF nonsp = {} THEN Len(s) + 1 ELSE Min(nonsp)
        IN  IF j <= Len(s) /\ s[j] = "{" THEN
                LET closes == {k \in (j + 1)..Len(s) : s[k] = "}"}
                IN  IF closes = {} THEN 0 ELSE Min(closes)
            ELSE 0
    ELSE 0

\* fontFaceRegex.FindAllString(s, -1)
RECURSIVE FindAllFontFaces(_, _)
FindAllFontFaces(s, i) ==
    IF i > Len(s) THEN <<>>
    ELSE LET e == FontFaceEnd(s, i)
         IN  IF e # 0 THEN <<SubSeq(s, i, e)>> \o FindAllFontFaces(s, e + 1)
             ELSE FindAllFontFaces(s, i + 1)

\* fontUrlRegex = `url\(['"]?(/_next/[^'"()]+)['"]?\)`: the match that starts
\* at i: its last position (0 when none starts there) and its submatch 1
FontUrlAt(s, i) ==
    IF ~OccursAt(s, <<"url", "(">>, i) THEN [end |-> 0, path |-> <<>>]
    ELSE
        LET p == IF i + 2 <= Len(s) /\ s[i + 2] \in Quotes THEN i + 3 ELSE i + 2
        IN  IF ~OccursAt(s, <<"/", "_next", "/">>, p) THEN [end |-> 0, path |-> <<>>]
            ELSE
                LET stops == {k \in (p + 3)..Len(s) : s[k] \in QuoteOrParen}
                    e == IF stops = {} THEN Len(s) + 1 ELSE Min(stops)
                    c == IF e <= Len(s) /\ s[e] \in Quotes THEN e + 1 ELSE e
                IN  IF e > p + 3 /\ c <= Len(s) /\ s[c] = ")"
                    THEN [end |-> c, path |-> SubSeq(s, p, e - 1)]
                    ELSE [end |-> 0, path |-> <<>>]

\* fontUrlRegex.FindAllStringSubmatch(s, -1), each match's url[1]
RECURSIVE FindAllFontUrls(_, _)
FindAllFontUrls(s, i) ==
    IF i > Len(s) THEN <<>>
    ELSE LET m == FontUrlAt(s, i)
         IN  IF m.end # 0 THEN <<m.path>> \o FindAllFontUrls(s, m.end + 1)
             ELSE FindAllFontUrls(s, i + 1)

\* Whether the loop body embeds the font at fontPath (it is read and its
\* extension is in fontMimeTypes) instead of taking one of its two continues.
FontEmbeddable(f, dir, fontPath) ==
    /\ CanRead(f, Join(dir, fontPath))
    /\ ToLower(Ext(fontPath)) \in DOMAIN fontMimeTypes

\* One pass of the inner loop of embedCSS for url[1] = fontPath: the new
\* cssString.
EmbedFont(f, dir, css, fontPath) ==
    LET fullPath == Join(dir, fontPath)
        ext == ToLower(Ext(fontPath))
    IN  IF ~CanRead(f, fullPath) THEN css
        ELSE IF ext \notin DOMAIN fontMimeTypes THEN css
        ELSE ReplaceAll(css, fontPath, DataURL(fontMimeTypes[ext], f[fullPath]))

\* The two loops of embedCSS over a list of blocks: the final cssString.
RECURSIVE EmbedFontUrls(_, _, _, _)
EmbedFontUrls(f, dir, css, paths) ==
    IF paths = <<>> THEN css
    ELSE EmbedFontUrls(f, dir, EmbedFont(f, dir, css, Head(paths)), Tail(paths))

RECURSIVE EmbedFontFaces(_, _, _, _)
EmbedFontFaces(f, dir, css, blocks) ==
    IF blocks = <<>> THEN css
    ELSE EmbedFontFaces(f, dir,
                        EmbedFontUrls(f, dir, css, FindAllFontUrls(Head(blocks), 1)),
                        Tail(blocks))

\* embedCSS, "Process font face rules": the rewritten CSS of cssContent
RewriteFontFaces(f, dir, cssContent) ==
    EmbedFontFaces(f, dir, cssContent, FindAllFontFaces(cssContent, 1))

\* -------------------------------------------------------------- html.Node

Attribute(k, v) == [Key |-> k, Val |-> v]

\* an html.Node not yet in any tree
NewNode(type, data, attr) ==
    [Type |-> type, Data |-> data, Attr |-> attr, Parent |-> Nil,
     FirstChild |-> Nil, LastChild |-> Nil, PrevSibling |-> Nil, NextSibling |-> Nil]

\* (*html.Node).RemoveChild: h after h[c].Parent.RemoveChild(c)
RemoveChild(h, c) ==
    LET p == h[c].Parent
        prev == h[c].PrevSibling
        next == h[c].NextSibling
    IN  [m \in DOMAIN h |->
            IF m = c THEN [h[m] EXCEPT !.Parent = Nil, !.PrevSibling = Nil, !.NextSibling = Nil]
            ELSE [h[m] EXCEPT
                    !.FirstChild = IF m = p /\ @ = c THEN next ELSE @,
                    !.LastChild = IF m = p /\ @ = c THEN prev ELSE @,
                    !.PrevSibling = IF m = next THEN prev ELSE @,
                    !.NextSibling = IF m = prev THEN next ELSE @]]

\* (*html.Node).InsertBefore: h after h[old].Parent.InsertBefore(new, old),
\* new a node without parent or siblings
InsertBefore(h, new, old) ==
    LET p == h[old].Parent
        prev == h[old].PrevSibling
    IN  [m \in DOMAIN h |->
            IF m = new THEN [h[m] EXCEPT !.Parent = p, !.PrevSibling = prev, !.NextSibling = old]
            ELSE [h[m] EXCEPT
                    !.FirstChild = IF m = p /\ prev = Nil THEN new ELSE @,
                    !.NextSibling = IF m = prev THEN new ELSE @,
                    !.PrevSibling = IF m = old THEN new ELSE @]]

\* (*html.Node).AppendChild: h after h[p].AppendChild(c), c a node without
\* parent or siblings
AppendChild(h, p, c) ==
    LET last == h[p].LastChild
    IN  [m \in DOMAIN h |->
            IF m = c THEN [h[m] EXCEPT !.Parent = p, !.PrevSibling = last]
            ELSE [h[m] EXCEPT
                    !.FirstChild = IF m = p /\ last = Nil THEN c ELSE @,
                    !.LastChild = IF m = p THEN c ELSE @,
                    !.NextSibling = IF m = last THEN c ELSE @]]

\* the children of n, following FirstChild and NextSibling
RECURSIVE SiblingsFrom(_, _)
SiblingsFrom(h, c) == IF c = Nil THEN <<>> ELSE <<c>> \o SiblingsFrom(h, h[c].NextSibling)

Children(h, n) == SiblingsFrom(h, h[n].FirstChild)

\* the nodes of the subtree of n, n first, in document order
RECURSIVE Subtree(_, _)
RECURSIVE SubtreesOf(_, _)
Subtree(h, n) == <<n>> \o SubtreesOf(h, Children(h, n))

SubtreesOf(h, cs) == IF cs = <<>> THEN <<>> ELSE Subtree(h, Head(cs)) \o SubtreesOf(h, Tail(cs))

\* ------------------------------------------------------ the node-local rules

\* jsAttributes of removeInlineJS
jsAttributes ==
    <<"onclick", "onload", "onunload", "onchange", "onsubmit", "onreset",
      "onselect", "onblur", "onfocus", "onkeydown", "onkeypress", "onkeyup",
      "onmouseover", "onmouseout", "onmousedown", "onmouseup", "onmousemove">>

\* the loop of removeInlineJS: newAttrs of an attribute list
RECURSIVE StripJS(_)
StripJS(attrs) ==
    IF attrs = <<>> THEN <<>>
    ELSE IF \E i \in 1..Len(jsAttributes) : Head(attrs).Key = jsAttributes[i]
         THEN StripJS(Tail(attrs))
         ELSE <<Head(attrs)>> \o StripJS(Tail(attrs))

\* Attribute stripping that matches every key with the prefix "on".
removeInlineJSByPrefix(h, n) ==
    [h EXCEPT ![n].Attr =
        SelectSeq(StripJS(h[n].Attr), LAMBDA a : a.Key \notin {"ondblclick", "oninput"})]

\* removeInlineJS(n)
removeInlineJS(h, n) == [h EXCEPT ![n].Attr = StripJS(h[n].Attr)]

\* the value a loop of the form "for a in n.Attr: if a.Key == k: v = a.Val"
\* leaves in v: that of the last attribute with the key, "" when there is none
LastVal(attrs, k) ==
    LET is == {i \in 1..Len(attrs) : attrs[i].Key = k}
    IN  IF is = {} THEN <<>> ELSE attrs[Max(is)].Val

\* the same loop with a break: the value of the first attribute with the key
FirstVal(attrs, k) ==
    LET is == {i \in 1..Len(attrs) : attrs[i].Key = k}
    IN  IF is = {} THEN <<>> ELSE attrs[Min(is)].Val

\* isPreloadJS(n)
isPreloadJS(h, n) ==
    LastVal(h[n].Attr, "rel") = <<"preload">> /\ LastVal(h[n].Attr, "as") = <<"script">>

\* isStylesheet(n)
isStylesheet(h, n) ==
    \E i \in 1..Len(h[n].Attr) :
        h[n].Attr[i].Key = "rel" /\ h[n].Attr[i].Val = <<"stylesheet">>

\* embedCSS: the path os.ReadFile is called with
CSSPath(dir, href) == IF HasPrefix(href, <<"/", "_next">>) THEN Join(dir, href) ELSE href

\* embedCSS: whether the call reaches "Replace link node with style node"
CSSEmbedded(f, dir, h, n) ==
    LET href == FirstVal(h[n].Attr, "href")
    IN  href # <<>> /\ CanRead(f, CSSPath(dir, href))

\* An embedCSS that appends the style element to the parent's children
\* instead of inserting it before the link.
embedCSSAppend(f, dir, h, n) ==
    IF ~CSSEmbedded(f, dir, h, n) THEN h
    ELSE
        LET cssContent == f[CSSPath(dir, FirstVal(h[n].Attr, "href"))]
            h1 == h \o <<NewNode("element", "style", <<Attribute("type", <<"text/css">>)>>),
                         NewNode("text", RewriteFontFaces(f, dir, cssContent), <<>>)>>
            h2 == AppendChild(h1, Len(h) + 1, Len(h) + 2)
        IN  RemoveChild(AppendChild(h2, h[n].Parent, Len(h) + 1), n)

\* An embedCSS that inserts the style element and leaves the link in place.
embedCSSKeepLink(f, dir, h, n) ==
    IF ~CSSEmbedded(f, dir, h, n) THEN h
    ELSE
        LET cssContent == f[CSSPath(dir, FirstVal(h[n].Attr, "href"))]
            h1 == h \o <<NewNode("element", "style", <<Attribute("type", <<"text/css">>)>>),
                         NewNode("text", RewriteFontFaces(f, dir, cssContent), <<>>)>>
            h2 == AppendChild(h1, Len(h) + 1, Len(h) + 2)
        IN  InsertBefore(h2, Len(h) + 1, n)

\* An embedCSS that drops a link whose CSS file it could not read.
embedCSSDropUnread(f, dir, h, n) ==
    IF FirstVal(h[n].Attr, "href") = <<>> THEN h
    ELSE IF ~CSSEmbedded(f, dir, h, n) THEN RemoveChild(h, n)
    ELSE
        LET cssContent == f[CSSPath(dir, FirstVal(h[n].Attr, "href"))]
            h1 == h \o <<NewNode("element", "style", <<Attribute("type", <<"text/css">>)>>),
                         NewNode("text", RewriteFontFaces(f, dir, cssContent), <<>>)>>
            h2 == AppendChild(h1, Len(h) + 1, Len(h) + 2)
        IN  RemoveChild(InsertBefore(h2, Len(h) + 1, n), n)

\* embedCSS(n, config): the nodes after the call.  The style node and its
\* text child are the two nodes allocated last.
embedCSS(f, dir, h, n) ==
    IF ~CSSEmbedded(f, dir, h, n) THEN h
    ELSE
        LET cssContent == f[CSSPath(dir, FirstVal(h[n].Attr, "href"))]
            styleNode == Len(h) + 1
            textNode == Len(h) + 2
            h1 == h \o <<NewNode("element", "style", <<Attribute("type", <<"text/css">>)>>),
                         NewNode("text", RewriteFontFaces(f, dir, cssContent), <<>>)>>
            h2 == AppendChild(h1, styleNode, textNode)
            h3 == InsertBefore(h2, styleNode, n)
        IN  RemoveChild(h3, n)

\* ------------------------------------------------------------ the input tree

\* The document node: the n of the first call of processNode.
Root == 1

Str(x) == <<x>>

AssetCSS == <<"/", "_next", "/", "a", ".css">>

FontPath == <<"/", "_next", "/", "f", ".woff", "2">>

\* The kinds of node below the document node: their Type, Data and Attr.
\* Attribute keys are unique within a node.
ScriptT == NewNode("element", "script", <<>>)

PreloadT ==
    NewNode("element", "link",
            <<Attribute("rel", Str("preload")), Attribute("as", Str("script")),
              Attribute("href", Str("a.js"))>>)

StyleLinkT ==
    NewNode("element", "link",
            <<Attribute("rel", Str("stylesheet")), Attribute("href", AssetCSS),
              Attribute("onload", Str("x"))>>)

MissingLinkT ==
    NewNode("element", "link",
            <<Attribute("onload", Str("x")), Attribute("rel", Str("stylesheet")),
              Attribute("href", <<"missing", ".css">>)>>)

NoHrefLinkT == NewNode("element", "link", <<Attribute("rel", Str("stylesheet"))>>)

DivT ==
    NewNode("element", "div",
            <<Attribute("class", Str("c")), Attribute("onclick", Str("f()")),
              Attribute("ondblclick", Str("g()"))>>)

TextT == NewNode("text", Str("hi"), <<>>)

Templates == {ScriptT, PreloadT, StyleLinkT, MissingLinkT, NoHrefLinkT, DivT, TextT}

\* The files of the run of the tree transformation, below the base directory
\* "site": the stylesheet of Scenario A and its font.
TreeFiles ==
    (<<"site", "/", "_next", "/", "a", ".css">> :>
        <<"@font-face", "{", "src:", "url", "(", "'">> \o FontPath \o <<"'", ")", "}">>)
    @@ (<<"site", "/", "_next", "/", "f", ".woff", "2">> :> <<119, 79, 70, 50>>)

RECURSIVE IsAncestorOrSelf(_, _, _)
IsAncestorOrSelf(par, a, x) ==
    x = a \/ (x # Root /\ IsAncestorOrSelf(par, a, par[x]))

\* The trees html.Parse returns with k nodes below the document node: node
\* ids in document order, par the parent of each, lab its kind.
ParsedTree(k, par, lab) ==
    [m \in 1..(k + 1) |->
        LET kids == {j \in 2..(k + 1) : par[j] = m}
            sibs == IF m = Root THEN {} ELSE {j \in 2..(k + 1) : par[j] = par[m]}
            node == IF m = Root THEN NewNode("document", "", <<>>) ELSE lab[m]
        IN  [node EXCEPT
                !.Parent = IF m = Root THEN Nil ELSE par[m],
                !.FirstChild = IF kids = {} THEN Nil ELSE Min(kids),
                !.LastChild = IF kids = {} THEN Nil ELSE Max(kids),
                !.PrevSibling = IF {j \in sibs : j < m} = {} THEN Nil
                                ELSE Max({j \in sibs : j < m}),
                !.NextSibling = IF {j \in sibs : j > m} = {} THEN Nil
                                ELSE Min({j \in sibs : j > m})]]

\* The parent maps of the trees with k nodes below the document node whose
\* node ids are in document order.
ParentMaps(k) ==
    {q \in [2..(k + 1) -> 1..k] :
        \A j \in 2..(k + 1) :
            /\ q[j] < j
            /\ j > 2 => IsAncestorOrSelf(q, q[j], j - 1)}

\* A text node has no children.
WellFormed(h) == \A m \in DOMAIN h : h[m].Type = "text" => h[m].FirstChild = Nil

\* ---------------------------------------------------------------- processNode

Frame(n) == [n |-> n, c |-> Nil, next |-> Nil, pc |-> "rules"]

Top == stack[Len(stack)]

AtRules == stack # <<>> /\ Top.pc = "rules"

IsElement(n, tag) == heap[n].Type = "element" /\ heap[n].Data = tag

\* A loop that reads c.NextSibling after processNode(c) returned instead of
\* the sibling captured before the call.
AfterCallLive(h, fr) == h[fr.c].NextSibling

\* "c = next": the child the loop goes on with after processNode(c) returned
AfterCall(h, fr) == fr.next

\* "return" of processNode: the frame is popped, and the caller's loop
\* goes on with "c = next"
Return(h, stk) ==
    LET rest == SubSeq(stk, 1, Len(stk) - 1)
    IN  IF rest = <<>> THEN rest
        ELSE LET fr == rest[Len(rest)]
             IN  [rest EXCEPT ![Len(rest)] =
                    [fr EXCEPT !.c = AfterCall(h, fr), !.pc = "loop"]]

\* A loop that is not entered for a node the rules detached.
EnterLoopUnlessDetached(h, stk) ==
    LET fr == stk[Len(stk)]
    IN  [stk EXCEPT ![Len(stk)] =
            [fr EXCEPT !.c = IF h[fr.n].Parent = Nil /\ fr.n # Root THEN Nil
                             ELSE h[fr.n].FirstChild,
                       !.pc = "loop"]]

\* "for c := n.FirstChild": the frame enters the loop over the children
EnterLoop(h, stk) ==
    LET fr == stk[Len(stk)]
    IN  [stk EXCEPT ![Len(stk)] = [fr EXCEPT !.c = h[fr.n].FirstChild, !.pc = "loop"]]

CSSVars == <<cssString, cssInput, fontFaces, urls>>

ImgVars == <<imgs, reads, processedURLs, calls>>

ConfigVars == <<removeJS, baseDir, fs, heap0>>

\* case "script": if config.removeJS { n.Parent.RemoveChild(n); return }
RemoveScript ==
    /\ AtRules
    /\ IsElement(Top.n, "script")
    /\ removeJS
    /\ heap' = RemoveChild(heap, Top.n)
    /\ detached' = detached \cup {Top.n}
    /\ stack' = Return(heap', stack)
    /\ UNCHANGED <<ConfigVars, CSSVars, ImgVars, visited, lateUse, styleOf>>

\* case "link": if isPreloadJS(n) && config.removeJS { RemoveChild; return }
RemovePreload ==
    /\ AtRules
    /\ IsElement(Top.n, "link")
    /\ isPreloadJS(heap, Top.n) /\ removeJS
    /\ heap' = RemoveChild(heap, Top.n)
    /\ detached' = detached \cup {Top.n}
    /\ stack' = Return(heap', stack)
    /\ UNCHANGED <<ConfigVars, CSSVars, ImgVars, visited, lateUse, styleOf>>

\* Attribute stripping that does not look at config.removeJS.
StripAlways(h, n) == removeInlineJS(h, n)

\* the attribute stripping that ends the rules of an element
StripIfRemoveJS(h, n) == IF removeJS THEN removeInlineJS(h, n) ELSE h

\* case "link": else if isStylesheet(n) { embedCSS(n, config) }, then the
\* attribute stripping, then the loop begins
EmbedStylesheet ==
    /\ AtRules
    /\ IsElement(Top.n, "link")
    /\ ~(isPreloadJS(heap, Top.n) /\ removeJS)
    /\ isStylesheet(heap, Top.n)
    /\ LET n == Top.n
           embedded == Len(embedCSS(fs, baseDir, heap, n)) > Len(heap)
       IN  /\ heap' = StripIfRemoveJS(embedCSS(fs, baseDir, heap, n), n)
           /\ detached' = IF embedded THEN detached \cup {n} ELSE detached
           /\ styleOf' = IF embedded THEN styleOf @@ (n :> Len(heap) + 1) ELSE styleOf
           /\ lateUse' = IF embedded
                         THEN lateUse \cup {<<n, "FirstChild">>}
                                      \cup (IF removeJS THEN {<<n, "Attr">>} ELSE {})
                         ELSE lateUse
           /\ stack' = EnterLoop(heap', stack)
    /\ UNCHANGED <<ConfigVars, CSSVars, ImgVars, visited>>

\* every other node: the attribute stripping of an element, then the loop
\* begins
VisitOther ==
    /\ AtRules
    /\ ~(IsElement(Top.n, "script") /\ removeJS)
    /\ ~(IsElement(Top.n, "link")
         /\ ((isPreloadJS(heap, Top.n) /\ removeJS) \/ isStylesheet(heap, Top.n)))
    /\ heap' = IF heap[Top.n].Type = "element" THEN StripIfRemoveJS(heap, Top.n) ELSE heap
    /\ stack' = EnterLoop(heap', stack)
    /\ UNCHANGED <<ConfigVars, CSSVars, ImgVars, visited, detached, lateUse, styleOf>>

\* the loop body: next := c.NextSibling; processNode(c, config)
LoopCall ==
    /\ stack # <<>> /\ Top.pc = "loop" /\ Top.c # Nil
    /\ stack' = [stack EXCEPT ![Len(stack)] =
                    [Top EXCEPT !.next = heap[Top.c].NextSibling, !.pc = "call"]]
                \o <<Frame(Top.c)>>
    /\ visited' = Append(visited, Top.c)
    /\ lateUse' = IF Top.n \in detached THEN lateUse \cup {<<Top.n, "children">>}
                  ELSE lateUse
    /\ UNCHANGED <<ConfigVars, CSSVars, ImgVars, heap, detached, styleOf>>

\* the loop ends (c == nil) and processNode returns
LoopExit ==
    /\ stack # <<>> /\ Top.pc = "loop" /\ Top.c = Nil
    /\ stack' = Return(heap, stack)
    /\ UNCHANGED <<ConfigVars, CSSVars, ImgVars, heap, visited, detached, lateUse, styleOf>>

\* processHTML: the tree html.Parse returned, and processNode(doc, config)
\* about to run
Init ==
    /\ removeJS \in BOOLEAN
    /\ baseDir = Str("site")
    /\ fs = TreeFiles
    /\ \E k \in 1..MaxNodes : \E par \in ParentMaps(k) : \E lab \in [2..(k + 1) -> Templates] :
            /\ heap0 = ParsedTree(k, par, lab)
            /\ WellFormed(heap0)
    /\ heap = heap0
    /\ stack = <<Frame(Root)>>
    /\ visited = <<Root>>
    /\ detached = {}
    /\ lateUse = {}
    /\ styleOf = <<>>
    /\ processedURLs = {}
    /\ cssString = <<>> /\ cssInput = <<>> /\ fontFaces = <<>> /\ urls = <<>>
    /\ imgs = <<>> /\ reads = <<>> /\ calls = <<>>

Next ==
    \/ RemoveScript
    \/ RemovePreload
    \/ EmbedStylesheet
    \/ VisitOther
    \/ LoopCall
    \/ LoopExit

Spec == Init /\ [][Next]_vars

\* processNode(doc, config) has returned
Done == stack = <<>>

\* ------------------------------------------------- the tree before and after

\* the nodes of the parsed tree
Orig == DOMAIN heap0

\* the nodes that can be reached from the document node
Reach(h) == Range(Subtree(h, Root))

IsTag(h, n, tag) == h[n].Type = "element" /\ h[n].Data = tag

IsScript(h, n) == IsTag(h, n, "script")

IsPreloadLink(h, n) ==
    /\ IsTag(h, n, "link")
    /\ \E i \in 1..Len(h[n].Attr) : h[n].Attr[i] = Attribute("rel", Str("preload"))
    /\ \E i \in 1..Len(h[n].Attr) : h[n].Attr[i] = Attribute("as", Str("script"))

IsStylesheetLink(h, n) ==
    /\ IsTag(h, n, "link")
    /\ \E i \in 1..Len(h[n].Attr) : h[n].Attr[i] = Attribute("rel", Str("stylesheet"))

\* the href of a link of the parsed tree ("" when it has none)
HrefOf(n) ==
    IF \E i \in 1..Len(heap0[n].Attr) : heap0[n].Attr[i].Key = "href"
    THEN heap0[n].Attr[CHOOSE i \in 1..Len(heap0[n].Attr) : heap0[n].Attr[i].Key = "href"].Val
    ELSE <<>>

\* a stylesheet link of the parsed tree whose CSS file is read
ReadableLink(n) ==
    /\ IsStylesheetLink(heap0, n)
    /\ HrefOf(n) # <<>>
    /\ CanRead(fs, CSSPath(baseDir, HrefOf(n)))

\* a stylesheet link of the parsed tree with a href whose file is not read
UnreadableLink(n) ==
    /\ IsStylesheetLink(heap0, n)
    /\ HrefOf(n) # <<>>
    /\ ~CanRead(fs, CSSPath(baseDir, HrefOf(n)))

\* a node of the parsed tree that JS removal takes out
JSNode(n) == removeJS /\ (IsScript(heap0, n) \/ IsPreloadLink(heap0, n))

RECURSIVE StrictAncestors(_, _)
StrictAncestors(h, n) ==
    IF h[n].Parent = Nil THEN {} ELSE {h[n].Parent} \cup StrictAncestors(h, h[n].Parent)

\* the nodes of the parsed tree that processNode is called on: those not
\* below a script or script-preload link that JS removal takes out
Reached == {n \in Orig : \A a \in StrictAncestors(heap0, n) : ~JSNode(a)}

\* the nodes of the parsed tree that stay below the document node: those that
\* are not, and are not below, a node taken out or a replaced link
Survivors ==
    {n \in Orig : \A a \in StrictAncestors(heap0, n) \cup {n} :
                      ~JSNode(a) /\ ~ReadableLink(a)}

\* the replaced links whose style element stays below the document node
SurvivingStyles ==
    {n \in Orig : /\ ReadableLink(n)
                  /\ \A a \in StrictAncestors(heap0, n) : a \in Survivors}

IndexOf(seq, x) == CHOOSE i \in 1..Len(seq) : seq[i] = x

IsPrefix(s, t) == Len(s) <= Len(t) /\ SubSeq(t, 1, Len(s)) = s

\* seq without the elements that are not in S
RECURSIVE Keep(_, _)
Keep(seq, S) ==
    IF seq = <<>> THEN <<>>
    ELSE IF Head(seq) \in S THEN <<Head(seq)>> \o Keep(Tail(seq), S)
    ELSE Keep(Tail(seq), S)

\* the style element that stands for link l, when l was replaced
StyleFor(h, l, m) ==
    /\ m \notin Orig
    /\ m \in DOMAIN h
    /\ IsTag(h, m, "style")
    /\ h[m].Attr = <<Attribute("type", Str("text/css"))>>
    /\ Len(Children(h, m)) = 1
    /\ h[h[m].FirstChild].Type = "text"
    /\ h[h[m].FirstChild].Data =
            RewriteFontFaces(fs, baseDir, fs[CSSPath(baseDir, HrefOf(l))])
    /\ l \in DOMAIN styleOf /\ styleOf[l] = m

\* a child list with every style element put back to the link it stands for
Unstyled(seq) ==
    [i \in 1..Len(seq) |->
        IF \E l \in DOMAIN styleOf : styleOf[l] = seq[i]
        THEN CHOOSE l \in DOMAIN styleOf : styleOf[l] = seq[i]
        ELSE seq[i]]

\* ------------------------------------------------------------------ claims

\* C1: when processNode has run over the document with removeJS enabled, no
\* script element can be reached from the document node, wherever the script
\* elements sat in the parsed tree.
C1_NoScriptRemains ==
    (Done /\ removeJS) => \A n \in Reach(heap) : ~IsScript(heap, n)

\* C1 witness: a finished run with removeJS over a tree that held two
\* consecutive sibling scripts and a script nested below another element.
C1_Witness ==
    /\ Done /\ removeJS
    /\ \E a, b \in Orig : /\ IsScript(heap0, a) /\ IsScript(heap0, b)
                          /\ heap0[a].NextSibling = b
                          /\ heap0[a].Parent # Root
    /\ \A n \in Reach(heap) : ~IsScript(heap, n)

\* the number of nodes below the document node that are not script elements
NonScriptCount(h) == Cardinality({n \in Reach(h) \ {Root} : ~IsScript(h, n)})

HasScript == \E n \in Orig : IsScript(heap0, n)

EventHandlerKeys ==
    {"onclick", "onload", "onunload", "onchange", "onsubmit", "onreset",
     "onselect", "onblur", "onfocus", "onkeydown", "onkeypress", "onkeyup",
     "onmouseover", "onmouseout", "onmousedown", "onmouseup", "onmousemove"}

\* the attributes of a list whose key is no event-handler name, in order
RECURSIVE OtherAttrs(_)
OtherAttrs(attrs) ==
    IF attrs = <<>> THEN <<>>
    ELSE (IF Head(attrs).Key \in EventHandlerKeys THEN <<>> ELSE <<Head(attrs)>>)
         \o OtherAttrs(Tail(attrs))

\* C3: when processNode has run with removeJS enabled, no element still in
\* the tree has an attribute with one of the 17 event-handler keys, and an
\* element of the parsed tree keeps its other attributes, values and order.
C3_NoEventHandlers ==
    (Done /\ removeJS) =>
        \A n \in Reach(heap) :
            heap[n].Type = "element" =>
                /\ \A i \in 1..Len(heap[n].Attr) : heap[n].Attr[i].Key \notin EventHandlerKeys
                /\ n \in Orig => heap[n].Attr = OtherAttrs(heap0[n].Attr)

\* C3 witness: a finished run with removeJS that leaves in the tree an
\* unreadable stylesheet link that had an onload attribute, an inserted
\* style element, and an element that keeps class and ondblclick.
C3_Witness ==
    /\ Done /\ removeJS
    /\ \E n \in Reach(heap) \cap Orig :
            /\ UnreadableLink(n)
            /\ Len(heap[n].Attr) < Len(heap0[n].Attr)
    /\ \E n \in Reach(heap) : n \notin Orig /\ IsTag(heap, n, "style")
    /\ \E n \in Reach(heap) :
            /\ IsTag(heap, n, "div")
            /\ heap[n].Attr = <<Attribute("class", Str("c")), Attribute("ondblclick", Str("g()"))>>

\* the earlier siblings of n in the parsed tree that JS removal takes out
RemovedBefore(n) ==
    LET sibs == Children(heap0, heap0[n].Parent)
    IN  {sibs[j] : j \in {j \in 1..(IndexOf(sibs, n) - 1) : JSNode(sibs[j])}}

\* C4 as stated: under either removeJS setting, a stylesheet link with a
\* readable href at index i of its parent's children is replaced by a style
\* element at index i of that parent's children, the other children keeping
\* their order.
C4_StyleAtSameIndex ==
    Done =>
        \A l \in Orig :
            ReadableLink(l) =>
                LET p == heap0[l].Parent
                    i == IndexOf(Children(heap0, p), l)
                IN  /\ i <= Len(Children(heap, p))
                    /\ StyleFor(heap, l, Children(heap, p)[i])
                    /\ Keep(Unstyled(Children(heap, p)), Orig \ {l})
                         = Keep(Children(heap0, p), Range(Unstyled(Children(heap, p))) \ {l})

\* C4 amended: under either removeJS setting, a stylesheet link with a
\* readable href that processNode reaches (one not below a script or
\* script-preload link taken out by JS removal), at index i of its parent's
\* children, is replaced by a style element at index i minus the number of
\* its earlier siblings that JS removal took out (index i with removeJS
\* disabled); the parent's children are its former children without those
\* taken out, in their former order, the style element in the link's place.
C4_StyleAtShiftedIndex ==
    Done =>
        \A l \in Reached :
            (ReadableLink(l) /\ ~JSNode(l)) =>
                LET p == heap0[l].Parent
                    i == IndexOf(Children(heap0, p), l)
                    k == Cardinality(RemovedBefore(l))
                IN  /\ ~removeJS => k = 0
                    /\ i - k <= Len(Children(heap, p))
                    /\ StyleFor(heap, l, Children(heap, p)[i - k])
                    /\ Unstyled(Children(heap, p))
                         = Keep(Children(heap0, p),
                                {m \in Orig : ~JSNode(m)})

\* C4 witness: a finished run in which a replaced link had a removed script
\* before it and a kept sibling after it.
C4_Witness ==
    /\ Done
    /\ \E l \in Reached :
            /\ ReadableLink(l)
            /\ RemovedBefore(l) # {}
            /\ l \in DOMAIN styleOf
            /\ heap[styleOf[l]].Parent = heap0[l].Parent
            /\ heap[styleOf[l]].NextSibling # Nil
            /\ heap[styleOf[l]].NextSibling = heap0[l].NextSibling

\* C5 as stated: under either removeJS setting, a stylesheet link whose href
\* file cannot be read stays in the tree at the same position with the same
\* attribute list, and no style element is inserted for it.
C5_UnreadableLinkUnchanged ==
    Done =>
        \A l \in Orig :
            UnreadableLink(l) =>
                LET p == heap0[l].Parent
                    i == IndexOf(Children(heap0, p), l)
                IN  /\ l \in Reach(heap)
                    /\ heap[l].Parent = p
                    /\ i <= Len(Children(heap, p)) /\ Children(heap, p)[i] = l
                    /\ heap[l].Attr = heap0[l].Attr
                    /\ l \notin DOMAIN styleOf
                    /\ \A m \in DOMAIN heap \ Orig : m \notin Range(Children(heap, p))

\* C5 amended: a stylesheet link whose href file cannot be read is never
\* replaced or detached: no style element is inserted for it and it keeps
\* its parent.  A link that processNode reaches (one not below a script or
\* script-preload link taken out by JS removal) ends at its former index
\* among the parent's children minus the number of its earlier siblings that
\* JS removal took out, and with removeJS enabled it keeps its attributes
\* other than the event handlers, which are removed; with removeJS disabled
\* index and attribute list are unchanged.  It stays in the tree unless one
\* of its ancestors was detached.
C5_UnreadableLinkKept ==
    Done =>
        \A l \in Orig :
            UnreadableLink(l) =>
                LET p == heap0[l].Parent
                    i == IndexOf(Children(heap0, p), l)
                    k == IF l \in Reached THEN Cardinality(RemovedBefore(l)) ELSE 0
                IN  /\ l \notin detached
                    /\ l \notin DOMAIN styleOf
                    /\ Unstyled(Children(heap, p)) =
                            IF l \in Reached
                            THEN Keep(Children(heap0, p), {m \in Orig : ~JSNode(m)})
                            ELSE Children(heap0, p)
                    /\ heap[l].Parent = p
                    /\ ~removeJS => k = 0
                    /\ i - k <= Len(Children(heap, p))
                    /\ Children(heap, p)[i - k] = l
                    /\ heap[l].Attr = IF removeJS /\ l \in Reached
                                      THEN OtherAttrs(heap0[l].Attr)
                                      ELSE heap0[l].Attr
                    /\ l \in Reach(heap) <=> p \in Survivors

\* C5 witness: a finished run with removeJS in which an unreadable
\* stylesheet link after a removed script lost its onload attribute and
\* stayed in the tree.
C5_Witness ==
    /\ Done /\ removeJS
    /\ \E l \in Orig :
            /\ UnreadableLink(l)
            /\ RemovedBefore(l) # {}
            /\ l \in Reach(heap)
            /\ Len(heap[l].Attr) = Len(heap0[l].Attr) - 1

\* the child lists and nodes of h that the replacement of links leaves
TreeButStyles ==
    /\ \A n \in Orig :
            /\ Unstyled(Children(heap, n)) = Children(heap0, n)
            /\ heap[n].Type = heap0[n].Type
            /\ heap[n].Data = heap0[n].Data
    /\ \A n \in Orig : n \in DOMAIN styleOf <=> ReadableLink(n)
    /\ \A n \in DOMAIN styleOf : StyleFor(heap, n, styleOf[n])
    /\ DOMAIN heap = Orig \cup UNION {{styleOf[n], heap[styleOf[n]].FirstChild} : n \in DOMAIN styleOf}

\* C8: with removeJS disabled no script element and no script-preload link
\* is detached and every element keeps its attribute list, the one change to
\* the tree being the replacement of the stylesheet links whose CSS was
\* read; with removeJS enabled no script-preload link is in the tree after
\* the run.
C8_RemoveJSFlag ==
    /\ ~removeJS =>
        /\ \A n \in detached : ~IsScript(heap0, n) /\ ~IsPreloadLink(heap0, n)
        /\ \A n \in Orig : heap[n].Attr = heap0[n].Attr
        /\ detached \subseteq {n \in Orig : ReadableLink(n)}
        /\ Done => TreeButStyles
    /\ (removeJS /\ Done) => \A n \in Reach(heap) : ~IsPreloadLink(heap, n)

\* C8 witness: a finished run with removeJS disabled over a tree with a
\* script, a script-preload link or element with an event handler, and a
\* replaced stylesheet link.
C8_Witness ==
    /\ Done /\ ~removeJS
    /\ \E n \in Reach(heap) : IsScript(heap, n)
    /\ \E n \in Reach(heap) : IsPreloadLink(heap, n)
    /\ \E n \in Orig : ReadableLink(n) /\ n \in detached

\* C8 witness for JS removal: a finished run with removeJS enabled over a
\* tree that held a script-preload link.
C8_WitnessRemoved ==
    /\ Done /\ removeJS
    /\ \E n \in Orig : IsPreloadLink(heap0, n) /\ n \in detached

\* C9 as stated: once processNode detached a node (a script, a script-preload
\* link, a replaced stylesheet link), no later step reads or changes it: its
\* attribute list is not stripped afterwards, its children are not recursed
\* into.
C9_NoUseAfterDetach == lateUse = {}

\* the calls of processNode over the subtree of n of the parsed tree, in
\* document order: none below a node that JS removal takes out
RECURSIVE CallsIn(_)
RECURSIVE CallsInAll(_)
CallsIn(n) == <<n>> \o (IF JSNode(n) THEN <<>> ELSE CallsInAll(Children(heap0, n)))

CallsInAll(cs) == IF cs = <<>> THEN <<>> ELSE CallsIn(Head(cs)) \o CallsInAll(Tail(cs))

\* C10: in a run of processNode over the document, every node of the parsed
\* tree that is not below a detached script or script-preload link is
\* visited exactly once, in document order, whatever siblings are detached
\* or replaced on the way; inserted style elements and their text children
\* are not visited.
C10_VisitOrder ==
    /\ IsPrefix(visited, CallsIn(Root))
    /\ Done => visited = CallsIn(Root)
    /\ Done => /\ Range(visited) = Reached
               /\ Len(visited) = Cardinality(Reached)

\* C10 witness: a finished run that detached a script, replaced a link with
\* a following sibling, and visited that sibling.
C10_Witness ==
    /\ Done
    /\ \E a \in Orig : IsScript(heap0, a) /\ a \in detached /\ heap0[a].NextSibling # Nil
    /\ \E l \in DOMAIN styleOf :
            heap0[l].NextSibling # Nil /\ heap0[l].NextSibling \in Range(visited)

\* ------------------------------------------- embedCSS, the font-face loops

FontWoff == <<"/", "_next", "/", "f", ".woff">>

FontWoff2 == <<"/", "_next", "/", "f", ".woff", "2">>

FontBak == <<"/", "_next", "/", "f", ".bak">>

FontTTF == <<"/", "_next", "/", "g", ".TTF">>

FontPaths == {FontWoff, FontWoff2, FontBak, FontTTF}

\* a url(...) reference of a stylesheet, with or without quotes
UrlRef(path, quoted) ==
    IF quoted THEN <<"url", "(", "'">> \o path \o <<"'", ")">>
    ELSE <<"url", "(">> \o path \o <<")">>

RECURSIVE JoinRefs(_, _)
JoinRefs(refs, sep) ==
    IF Len(refs) = 1 THEN Head(refs)
    ELSE Head(refs) \o sep \o JoinRefs(Tail(refs), sep)

\* The stylesheets read by embedCSS: url(...) references to fonts in one
\* @font-face block or in one block each, and after them nothing or a rule
\* that refers to a font outside any @font-face block.
Stylesheets ==
    UNION {
        {<<"@font-face", " ", "{", "src:">> \o JoinRefs(refs, sep) \o <<"}">> \o rest :
            refs \in [1..k -> {UrlRef(q, b) : q \in FontPaths, b \in BOOLEAN}],
            sep \in {<<",">>, <<"}", "@font-face", "{", "src:">>},
            rest \in {<<>>, <<".x", "{", "background:">> \o UrlRef(FontWoff, FALSE) \o <<"}">>}}
        : k \in 1..MaxRefs}

\* the bytes of the font files
FontBytes(path) == IF path = FontWoff2 THEN <<119, 79, 70, 50>> ELSE <<119, 79>>

\* the file systems of a run of embedCSS: any of the fonts readable
FontFiles(dir) ==
    {[q \in {Join(dir, path) : path \in R} |->
            FontBytes(CHOOSE path \in R : Join(dir, path) = q)]
        : R \in SUBSET FontPaths}

\* "for _, fontFace := range fontFaces": the next block, its urls found
NextFontFace ==
    /\ urls = <<>> /\ fontFaces # <<>>
    /\ urls' = FindAllFontUrls(Head(fontFaces), 1)
    /\ fontFaces' = Tail(fontFaces)
    /\ UNCHANGED <<cssString, cssInput, ConfigVars, ImgVars, heap, stack, visited,
                   detached, lateUse, styleOf>>

\* "for _, url := range urls": the font file is not read; continue
FontUnreadable ==
    /\ urls # <<>>
    /\ ~CanRead(fs, Join(baseDir, Head(urls)))
    /\ cssString' = EmbedFont(fs, baseDir, cssString, Head(urls))
    /\ urls' = Tail(urls)
    /\ UNCHANGED <<fontFaces, cssInput, ConfigVars, ImgVars, heap, stack, visited,
                   detached, lateUse, styleOf>>

\* the font file is read, its extension is not in fontMimeTypes; continue
FontUnknownType ==
    /\ urls # <<>>
    /\ CanRead(fs, Join(baseDir, Head(urls)))
    /\ ToLower(Ext(Head(urls))) \notin DOMAIN fontMimeTypes
    /\ cssString' = EmbedFont(fs, baseDir, cssString, Head(urls))
    /\ urls' = Tail(urls)
    /\ UNCHANGED <<fontFaces, cssInput, ConfigVars, ImgVars, heap, stack, visited,
                   detached, lateUse, styleOf>>

\* the font is embedded: "cssString = strings.Replace(cssString, url[1],
\* dataURL, -1)"
FontEmbed ==
    /\ urls # <<>>
    /\ FontEmbeddable(fs, baseDir, Head(urls))
    /\ cssString' = EmbedFont(fs, baseDir, cssString, Head(urls))
    /\ urls' = Tail(urls)
    /\ UNCHANGED <<fontFaces, cssInput, ConfigVars, ImgVars, heap, stack, visited,
                   detached, lateUse, styleOf>>

\* embedCSS has read the CSS file and found its @font-face blocks
InitCSS ==
    /\ removeJS = FALSE
    /\ baseDir \in {Str("site"), Str(".")}
    /\ fs \in FontFiles(baseDir)
    /\ cssInput \in Stylesheets
    /\ cssString = cssInput
    /\ fontFaces = FindAllFontFaces(cssInput, 1)
    /\ urls = <<>>
    /\ heap0 = <<>> /\ heap = <<>> /\ stack = <<>> /\ visited = <<>>
    /\ detached = {} /\ lateUse = {} /\ styleOf = <<>>
    /\ processedURLs = {}
    /\ imgs = <<>> /\ reads = <<>> /\ calls = <<>>

NextCSS ==
    \/ NextFontFace
    \/ FontUnreadable
    \/ FontUnknownType
    \/ FontEmbed

SpecCSS == InitCSS /\ [][NextCSS]_vars

\* both loops of embedCSS have ended
CSSDone == fontFaces = <<>> /\ urls = <<>>

\* the text between the parentheses of every url(...) of a stylesheet,
\* without its quotes, in order
RECURSIVE UrlArgs(_, _)
UrlArgs(s, i) ==
    IF i > Len(s) THEN <<>>
    ELSE IF OccursAt(s, <<"url", "(">>, i) THEN
        LET close == Min({k \in (i + 2)..(Len(s) + 1) : k = Len(s) + 1 \/ s[k] = ")"})
        IN  <<SelectSeq(SubSeq(s, i + 2, close - 1), LAMBDA x : x \notin Quotes)>>
            \o UrlArgs(s, close + 1)
    ELSE UrlArgs(s, i + 1)

\* the url(...) references inside the @font-face blocks of the stylesheet
\* read; they come before every other url(...) of it
FontFaceRefs == FindAllFontUrls(JoinRefs(FindAllFontFaces(cssInput, 1), <<>>), 1)

\* C7 as stated: in the CSS that embedCSS rewrote, every @font-face url(...)
\* reference whose font file cannot be read or whose extension is not in
\* fontMimeTypes is as it was in the CSS read, whatever the other
\* references of the stylesheet are.
C7_SkippedRefsUnmodified ==
    CSSDone =>
        \A k \in 1..Len(FontFaceRefs) :
            ~FontEmbeddable(fs, baseDir, FontFaceRefs[k]) =>
                /\ k <= Len(UrlArgs(cssString, 1))
                /\ UrlArgs(cssString, 1)[k] = UrlArgs(cssInput, 1)[k]

\* ------------------------------------------------------------- embedImage

AssetPNG == <<"/", "_next", "/", "i", ".png">>

LocalGIF == <<"pic", ".gif">>

MissingPNG == <<"gone", ".png">>

\* The Attr lists of the img nodes: a src below /_next, a relative src, a
\* src whose file is missing, no src.
ImgAttrs ==
    {<<Attribute("src", AssetPNG), Attribute("alt", Str("a"))>>,
     <<Attribute("alt", Str("a")), Attribute("src", LocalGIF)>>,
     <<Attribute("src", MissingPNG)>>,
     <<Attribute("alt", Str("a"))>>}

\* the image files of a run: the /_next image below the base directory and
\* the relative one
ImageFiles(dir) ==
    (Join(dir, AssetPNG) :> <<137, 80, 78>>) @@ (LocalGIF :> <<71, 73, 70, 56>>)

\* mime.TypeByExtension(ext), "" for an extension the table does not hold
TypeByExtension(ext) ==
    IF ext = Str(".png") THEN "image/png"
    ELSE IF ext = Str(".gif") THEN "image/gif"
    ELSE ""

\* embedImage: the path os.ReadFile is called with (the local src after
\* "src = filepath.Join(config.baseDir, src)")
ImagePath(dir, src) == IF HasPrefix(src, <<"/", "_next">>) THEN Join(dir, src) ELSE src

\* embedImage: the data URL of the image read from path
ImageDataURL(f, path) ==
    LET mimeType == TypeByExtension(Ext(path))
    IN  DataURL(IF mimeType = "" THEN "image/png" ELSE mimeType, f[path])

\* embedImage, "Update src attribute": the first src gets the data URL
SetSrc(attrs, dataURL) ==
    LET i == Min({j \in 1..Len(attrs) : attrs[j].Key = "src"})
    IN  [attrs EXCEPT ![i].Val = dataURL]

\* embedImage: the key of "config.processedURLs[src] = true", src being the
\* local variable the join was assigned to
ProcessedKey(dir, src) == ImagePath(dir, src)

Call(i, src, read, changed) == [node |-> i, src |-> src, read |-> read, changed |-> changed]

TreeVars == <<heap, stack, visited, detached, lateUse, styleOf>>

\* embedImage(n): src == "" || config.processedURLs[src]; return
EmbedImageSkip ==
    \E i \in 1..Len(imgs) :
    LET src == FirstVal(imgs[i], "src")
    IN  /\ Len(calls) < MaxCalls
        /\ src = <<>> \/ src \in processedURLs
        /\ calls' = Append(calls, Call(i, src, FALSE, FALSE))
        /\ UNCHANGED <<imgs, reads, processedURLs, ConfigVars, CSSVars, TreeVars>>

\* embedImage(n): os.ReadFile fails; return
EmbedImageUnreadable ==
    \E i \in 1..Len(imgs) :
    LET src == FirstVal(imgs[i], "src")
        path == ImagePath(baseDir, src)
    IN  /\ Len(calls) < MaxCalls
        /\ src # <<>> /\ src \notin processedURLs
        /\ ~CanRead(fs, path)
        /\ calls' = Append(calls, Call(i, src, FALSE, FALSE))
        /\ UNCHANGED <<imgs, reads, processedURLs, ConfigVars, CSSVars, TreeVars>>

\* embedImage(n): the file is read, the src attribute rewritten, the key
\* marked processed
EmbedImageRead ==
    \E i \in 1..Len(imgs) :
    LET src == FirstVal(imgs[i], "src")
        path == ImagePath(baseDir, src)
    IN  /\ Len(calls) < MaxCalls
        /\ src # <<>> /\ src \notin processedURLs
        /\ CanRead(fs, path)
        /\ reads' = [reads EXCEPT ![path] = @ + 1]
        /\ imgs' = [imgs EXCEPT ![i] = SetSrc(@, ImageDataURL(fs, path))]
        /\ processedURLs' = processedURLs \cup {ProcessedKey(baseDir, src)}
        /\ calls' = Append(calls, Call(i, src, TRUE, TRUE))
        /\ UNCHANGED <<ConfigVars, CSSVars, TreeVars>>

\* a run with an empty processedURLs and the img nodes of its document
InitImg ==
    /\ removeJS = FALSE
    /\ baseDir \in {Str("site"), Str("."), Str("/")}
    /\ fs = ImageFiles(baseDir)
    /\ \E k \in 1..MaxImgs : imgs \in [1..k -> ImgAttrs]
    /\ processedURLs = {}
    /\ reads = [q \in DOMAIN fs |-> 0]
    /\ calls = <<>>
    /\ heap0 = <<>> /\ heap = <<>> /\ stack = <<>> /\ visited = <<>>
    /\ detached = {} /\ lateUse = {} /\ styleOf = <<>>
    /\ cssString = <<>> /\ cssInput = <<>> /\ fontFaces = <<>> /\ urls = <<>>

NextImg ==
    \/ EmbedImageSkip
    \/ EmbedImageUnreadable
    \/ EmbedImageRead

SpecImg == InitImg /\ [][NextImg]_vars

\* C6 as stated: when embedImage is called twice in a run for img nodes with
\* the same src value, under /_next or not, and the file is readable, the
\* file is read once: the second call finds the src in processedURLs and
\* returns without reading the file or changing the node.
C6_SameSrcReadOnce ==
    \A a, b \in 1..Len(calls) :
        (/\ a < b
         /\ calls[a].src = calls[b].src
         /\ calls[a].src # <<>>
         /\ CanRead(fs, ImagePath(baseDir, calls[a].src))) =>
            /\ ~calls[b].read
            /\ ~calls[b].changed
            /\ reads[ImagePath(baseDir, calls[a].src)] = 1

====
